---- MODULE Spec2Model ----
(***************************************************************************)
(* Model of the camera calibration / image measurement service of          *)
(* webrtc/参考/main.py (FastAPI application served by one uvicorn event     *)
(* loop).  Every handler is an `async def`: it runs without interruption   *)
(* from its first statement to its next `await` (or to its return) and     *)
(* only there can another request's handler run.  The variable `running`   *)
(* is the request whose handler currently owns the event loop.             *)
(*                                                                         *)
(* CameraCalibrator (calibration.py) and ImageProcessor (image_process.py) *)
(* are imported by main.py but their code is not part of the sources; the  *)
(* operators that stand for them follow the written specification.         *)
(***************************************************************************)
EXTENDS Integers, FiniteSets, Sequences, TLC

\* ---------------------------------------------------------------- bounds
NReq == 2
MaxTime == 2
MaxFiles == 1

Reqs == 1..NReq
Times == 1..MaxTime

\* ------------------------------------------------------- values and models
\* None of Python; every matrix value below is a positive integer
None == 0

\* the value of field number i of the model fitted by the g-th calibration
Val(g, i) == 4 * (g - 1) + i

GenOf(v) == ((v - 1) \div 4) + 1
FieldOf(v) == ((v - 1) % 4) + 1

\* calibration_params as created at import time (main.py 27-33)
InitialParams ==
  [cameraMatrix |-> None, distCoeffs |-> None, newCameraMatrix |-> None,
   roi |-> None, is_calibrated |-> FALSE]

\* the fields a CameraCalibrator instance holds (None before calibrate/load)
NoCalibrator ==
  [cameraMatrix |-> None, distCoeffs |-> None, newCameraMatrix |-> None,
   roi |-> None, imageSize |-> None]

\* File names a client may give to an uploaded calibration image
FileNames == {"a.jpg"}

\* the suffix glob.glob matches on (main.py 93-94)
Ext(fname) ==
  CASE fname = "a.jpg" -> "jpg"
    [] fname = "b.png" -> "png"
    [] OTHER -> ""

\* what an uploaded calibration image shows: a frame in which the chessboard
\* is found, or a frame in which it is not; a file opened and not yet
\* written is "empty"
Contents == {"board", "noboard"}

\* the frames a client may submit for measurement
Images == {"good", "wrongsize", "noref"}

\* the texts str(e) of the exceptions raised by the collaborators
Msgs == {"m1", "m2"}

\* the first six digits of id(file), the address of an UploadFile object
IdPrefixes == {"140234"}

\* the paths a stored calibration image can have (main.py 49-52):
\* timestamp, first digits of id(file), client file name; timestamp 0 is
\* that of a file stored before the server process was first started
Names == [ts : {0} \cup Times, idp : IdPrefixes, fname : FileNames]

NoName == [ts |-> 0, idp |-> "", fname |-> ""]

\* a path of temp_images that holds no file
NoFile == [st |-> "absent", by |-> 0, img |-> ""]

\* a path of processed_images or results: 0, or the request that wrote it
NoOutput == 0

NoResults == [calib |-> NoCalibrator, valid_images_count |-> 0, total_images_count |-> 0]

\* persisted parameter file calib_results/camera_calib_params.xml
AbsentFile == [st |-> "absent", kv |-> NoCalibrator]
CorruptFile == [st |-> "corrupt", kv |-> NoCalibrator]

\* a request that has not been received yet
NewReq ==
  [kind |-> "none", pc |-> "new", batch |-> {}, results |-> NoResults,
   ts |-> 0, img |-> "", cur |-> NoName, curContent |-> "", uploaded |-> 0,
   start |-> InitialParams, seen |-> NoCalibrator]

\* a request whose handler has returned
DoneReq == [NewReq EXCEPT !.pc = "done"]

\* no response sent yet
NoLast ==
  [r |-> 0, handler |-> "", status |-> 0, key |-> "", prefix |-> "", msg |-> "",
   valid |-> 0, total |-> 0, err |-> "", nimages |-> 0, usable |-> 0,
   used |-> NoCalibrator, seen |-> NoCalibrator,
   start |-> InitialParams, end |-> InitialParams]

VARIABLES
  calibration_params,  \* the global dict of main.py 27-33
  paramsFile,          \* calib_results/camera_calib_params.xml
  calib_images,        \* folder calib_images: path -> content ("absent" if no file)
  temp_images,         \* folder temp_images: timestamp -> file (st, writer, frame)
  processed_images,    \* folder processed_images: timestamp -> writing request
  results_files,       \* folder results: timestamp -> writing request
  now,                 \* datetime.now() at a resolution of one second
  nextGen,             \* number of the next model a calibration fits
  running,             \* request whose handler owns the event loop, 0 if none
  req,                 \* per request: handler position and locals
  last,                \* the response sent last, with what its handler saw
  saved                \* the model save_results wrote last, NoCalibrator if none

vars == <<calibration_params, paramsFile, calib_images, temp_images,
          processed_images, results_files, now, nextGen, running, req, last,
          saved>>

folders == <<calib_images, temp_images, processed_images, results_files>>

\* ------------------------------------------------------------ collaborators

\* CameraCalibrator.calibrate: the images of the batch in which the
\* chessboard is detected
ValidImages(batch) == {n \in batch : calib_images[n] = "board"}

\* the fields of a CameraCalibrator that holds the g-th fitted model
FittedModel(g) ==
  [cameraMatrix |-> Val(g, 1), distCoeffs |-> Val(g, 2),
   newCameraMatrix |-> Val(g, 3), roi |-> Val(g, 4), imageSize |-> g]

\* CameraCalibrator.calibrate on a batch with at least one detection: the
\* fitted model number g together with the quality counts
calibrate(batch, g) ==
  [calib |-> FittedModel(g),
   valid_images_count |-> Cardinality(ValidImages(batch)),
   total_images_count |-> Cardinality(batch)]

\* CameraCalibrator.save_results: the key-value tree written to the file
save_results(calib) ==
  [st |-> "ok",
   kv |-> [cameraMatrix |-> calib.cameraMatrix, distCoeffs |-> calib.distCoeffs,
           newCameraMatrix |-> calib.newCameraMatrix, roi |-> calib.roi,
           imageSize |-> calib.imageSize]]

\* CameraCalibrator.load_results succeeds only on a file holding every field
LoadOk(file) ==
  /\ file.st = "ok"
  /\ file.kv.cameraMatrix # None /\ file.kv.distCoeffs # None
  /\ file.kv.newCameraMatrix # None /\ file.kv.roi # None
  /\ file.kv.imageSize # None

\* CameraCalibrator.load_results: the fields of the calibrator after loading
load_results(file) ==
  [cameraMatrix |-> file.kv.cameraMatrix, distCoeffs |-> file.kv.distCoeffs,
   newCameraMatrix |-> file.kv.newCameraMatrix, roi |-> file.kv.roi,
   imageSize |-> file.kv.imageSize]

\* ImageProcessor.process_image on the frame stored at a path of
\* temp_images: the failure it ends in, "" when it measures the frame
MeasureFailure(file) ==
  IF file.st # "written" THEN "ImageUnreadable"
  ELSE IF file.img = "wrongsize" THEN "SizeMismatch"
  ELSE IF file.img = "noref" THEN "ScaleIndeterminate"
  ELSE ""

\* --------------------------------------------------------------- responses

\* raise HTTPException(status_code=code, detail=prefix + text)
HTTPError(code, prefix, text) ==
  [NoLast EXCEPT !.status = code, !.key = "detail", !.prefix = prefix, !.msg = text]

\* return JSONResponse(status_code=500, content={"error": str(e)})
ServerError(e) ==
  [NoLast EXCEPT !.status = 500, !.key = "error", !.msg = e.msg]

\* return JSONResponse(content={"status": "success", key: ...})
Success(key) == [NoLast EXCEPT !.status = 200, !.key = key]

\* ------------------------------------------------------------------- Init
\* The process starts (main.py 13-33) on the folders earlier runs left
\* (os.makedirs(..., exist_ok=True)): there may be an image uploaded earlier
\* and a parameter file, unreadable or written by save_results for model 1
Init ==
  /\ calibration_params = InitialParams
  /\ \/ paramsFile \in {AbsentFile, CorruptFile} /\ saved = NoCalibrator
     \/ paramsFile = save_results(FittedModel(1)) /\ saved = FittedModel(1)
  /\ \E old \in {"absent"} \cup Contents :
       calib_images = [n \in Names |-> IF n.ts = 0 THEN old ELSE "absent"]
  /\ temp_images = [t \in Times |-> NoFile]
  /\ processed_images = [t \in Times |-> NoOutput]
  /\ results_files = [t \in Times |-> NoOutput]
  /\ now = 1
  /\ nextGen = 2
  /\ running = 0
  /\ req = [r \in Reqs |-> NewReq]
  /\ last = NoLast

\* requests are numbered in the order in which the event loop starts their
\* handlers: request r is the next to be received
Receivable(r) ==
  /\ req[r].pc = "new"
  /\ running = 0
  /\ \A q \in Reqs : q < r => req[q].pc # "new"

\* a handler ends: the response is sent and the event loop is free again;
\* start is calibration_params as the handler found it, and the response is
\* recorded with calibration_params as the handler leaves it
Respond(r, handler, response, failure, start) ==
  /\ req' = [req EXCEPT ![r] = DoneReq]
  /\ last' = [response EXCEPT !.r = r, !.handler = handler, !.err = failure,
                              !.start = start, !.end = calibration_params']
  /\ running' = 0

\* ------------------------------------------------------- start_calibration
\* glob.glob of *.jpg and *.png in calib_images (main.py 93-94)
GlobCalibImages ==
  {n \in Names : calib_images[n] # "absent" /\ Ext(n.fname) \in {"jpg", "png"}}

\* Continue with an await put between the statements of start_calibration
ContinueAfterAwait(r) == running' = 0

\* start_calibration has no await: after a statement of the handler the
\* event loop goes on with the next statement of the same handler
Continue(r) == running' = r

\* main.py 107-113: calibration_params.update from the results of calibrate
UpdateFromResults(results) ==
  [cameraMatrix |-> results.calib.cameraMatrix,
   distCoeffs |-> results.calib.distCoeffs,
   newCameraMatrix |-> results.calib.newCameraMatrix,
   roi |-> results.calib.roi,
   is_calibrated |-> TRUE]

\* CalibrationResponse with the two counts exchanged
CalibrationResponseSwapped(results) ==
  [Success("results") EXCEPT !.valid = results.total_images_count,
                             !.total = results.valid_images_count]

\* main.py 115-127: the success response of start_calibration
CalibrationResponse(results) ==
  [Success("results") EXCEPT !.valid = results.valid_images_count,
                             !.total = results.total_images_count]

\* what is known of a calibration when it responds: the number of images
\* listed and the number of them that show the chessboard
Batch(response, batch) ==
  [response EXCEPT !.nimages = Cardinality(batch),
                   !.usable = Cardinality({n \in batch : calib_images[n] = "board"})]

\* main.py 86-97: parse the chessboard size, list the calibration images
CalGlob(r) ==
  /\ Receivable(r)
  /\ UNCHANGED calibration_params
  /\ \E chessboard_size \in {"6,6", "6x6"} :
       IF chessboard_size # "6,6"
       THEN Respond(r, "calib",
                    ServerError([kind |-> "ValueError", msg |-> "invalid literal for int()"]),
                    "ValueError", calibration_params)
       ELSE IF Cardinality(GlobCalibImages) = 0
       THEN Respond(r, "calib", HTTPError(400, "no calibration images", ""),
                    "InsufficientData", calibration_params)
       ELSE /\ req' = [req EXCEPT ![r] = [@ EXCEPT !.kind = "calib",
                                                   !.pc = "cal_calibrate",
                                                   !.batch = GlobCalibImages,
                                                   !.start = calibration_params]]
            /\ Continue(r)
            /\ UNCHANGED last
  /\ UNCHANGED <<paramsFile, folders, now, nextGen, saved>>

\* CalibrateFailed with the exception swallowed: the handler goes on to the
\* update and the success response with the results it has
CalibrateFailedSwallowed(r, e) ==
  /\ calibration_params' = UpdateFromResults(req[r].results)
  /\ Respond(r, "calib", Batch(CalibrationResponse(req[r].results), req[r].batch),
             "", req[r].start)

\* main.py 128-131 when calibrate raised e: the handler returns a 500
\* response and calibration_params is not touched
CalibrateFailed(r, e) ==
  /\ UNCHANGED calibration_params
  /\ Respond(r, "calib", Batch(ServerError(e), req[r].batch), e.kind, req[r].start)

\* main.py 99-101: CameraCalibrator(...).calibrate(img_paths=calib_images)
CalCalibrate(r) ==
  /\ req[r].pc = "cal_calibrate"
  /\ running = r
  /\ IF ValidImages(req[r].batch) = {}
     THEN /\ \E m \in Msgs : CalibrateFailed(r, [kind |-> "InsufficientData", msg |-> m])
          /\ UNCHANGED nextGen
     ELSE /\ req' = [req EXCEPT ![r] = [@ EXCEPT !.pc = "cal_save",
                                                 !.results = calibrate(req[r].batch, nextGen)]]
          /\ nextGen' = nextGen + 1
          /\ Continue(r)
          /\ UNCHANGED <<last, calibration_params>>
  /\ UNCHANGED <<paramsFile, folders, now, saved>>

\* SaveFailed with calibration_params.update placed before save_results
SaveFailedAfterUpdate(r, e) ==
  /\ calibration_params' = UpdateFromResults(req[r].results)
  /\ Respond(r, "calib", Batch(ServerError(e), req[r].batch), e.kind, req[r].start)

\* SaveFailed with the shared model reset to its initial value on failure
SaveFailedReset(r, e) ==
  /\ calibration_params' = InitialParams
  /\ Respond(r, "calib", Batch(ServerError(e), req[r].batch), e.kind, req[r].start)

\* main.py 128-131 when save_results raised e: the handler returns a 500
\* response and calibration_params is not touched
SaveFailed(r, e) ==
  /\ UNCHANGED calibration_params
  /\ Respond(r, "calib", Batch(ServerError(e), req[r].batch), e.kind, req[r].start)

\* main.py 103-104: calibrator.save_results(); a failed write leaves the
\* file as it was or unreadable
CalSave(r) ==
  /\ req[r].pc = "cal_save"
  /\ running = r
  /\ \/ /\ paramsFile' = save_results(req[r].results.calib)
        /\ saved' = req[r].results.calib
        /\ req' = [req EXCEPT ![r] = [@ EXCEPT !.pc = "cal_update"]]
        /\ Continue(r)
        /\ UNCHANGED <<last, calibration_params>>
     \/ /\ paramsFile' \in {paramsFile, CorruptFile}
        /\ saved' = IF paramsFile' = paramsFile THEN saved ELSE NoCalibrator
        /\ \E m \in Msgs : SaveFailed(r, [kind |-> "IOError", msg |-> m])
  /\ UNCHANGED <<folders, now, nextGen>>

\* main.py 106-127: calibration_params.update(...) and the success response
CalUpdate(r) ==
  /\ req[r].pc = "cal_update"
  /\ running = r
  /\ calibration_params' = UpdateFromResults(req[r].results)
  /\ Respond(r, "calib", Batch(CalibrationResponse(req[r].results), req[r].batch),
             "", req[r].start)
  /\ UNCHANGED <<paramsFile, folders, now, nextGen, saved>>

\* ----------------------------------------------------------- process_image
\* Calibrated with the gate left out
CalibratedUnchecked == TRUE

\* main.py 142: the calibration gate reads calibration_params["is_calibrated"]
Calibrated == calibration_params["is_calibrated"]

\* UpdateFromCalibrator with the "roi" entry left out of the update
UpdateFromCalibratorNoRoi(calibrator) ==
  [cameraMatrix |-> calibrator.cameraMatrix,
   distCoeffs |-> calibrator.distCoeffs,
   newCameraMatrix |-> calibrator.newCameraMatrix,
   roi |-> calibration_params.roi,
   is_calibrated |-> TRUE]

\* UpdateFromCalibrator with cameraMatrix and newCameraMatrix exchanged
UpdateFromCalibratorSwapped(calibrator) ==
  [cameraMatrix |-> calibrator.newCameraMatrix,
   distCoeffs |-> calibrator.distCoeffs,
   newCameraMatrix |-> calibrator.cameraMatrix,
   roi |-> calibrator.roi,
   is_calibrated |-> TRUE]

\* UpdateFromCalibrator with the "is_calibrated" entry left as it is
UpdateFromCalibratorUnflagged(calibrator) ==
  [cameraMatrix |-> calibrator.cameraMatrix,
   distCoeffs |-> calibrator.distCoeffs,
   newCameraMatrix |-> calibrator.newCameraMatrix,
   roi |-> calibrator.roi,
   is_calibrated |-> calibration_params.is_calibrated]

\* main.py 153-159: calibration_params.update from the loaded calibrator
UpdateFromCalibrator(calibrator) ==
  [cameraMatrix |-> calibrator.cameraMatrix,
   distCoeffs |-> calibrator.distCoeffs,
   newCameraMatrix |-> calibrator.newCameraMatrix,
   roi |-> calibrator.roi,
   is_calibrated |-> TRUE]

\* main.py 163-175: the file names, open(original_path, "wb"), up to
\* `await file.read()`
ProcOpen(r, img) ==
  /\ req' = [req EXCEPT ![r] = [@ EXCEPT !.kind = "process", !.pc = "proc_read",
                                         !.ts = now, !.img = img,
                                         !.start = calibration_params,
                                         !.seen = paramsFile.kv]]
  /\ temp_images' = [temp_images EXCEPT ![now] = [st |-> "empty", by |-> r, img |-> ""]]
  /\ running' = 0
  /\ UNCHANGED last

\* LoadFailed with the update done before load_results has succeeded
LoadFailedAfterUpdate(r, e) ==
  /\ calibration_params' = UpdateFromCalibrator(NoCalibrator)
  /\ UNCHANGED temp_images
  /\ Respond(r, "process", HTTPError(400, "loading the parameters failed: ", e.msg),
             e.kind, calibration_params)

\* main.py 160-161 when load_results raised e: HTTP 400, and
\* calibration_params is not touched
LoadFailed(r, e) ==
  /\ UNCHANGED <<calibration_params, temp_images>>
  /\ Respond(r, "process", HTTPError(400, "loading the parameters failed: ", e.msg),
             e.kind, calibration_params)

\* main.py 140-175: the calibration gate with its lazy reload, then ProcOpen
ProcGate(r) ==
  /\ Receivable(r)
  /\ \E img \in Images :
       IF Calibrated
       THEN ProcOpen(r, img) /\ UNCHANGED calibration_params
       ELSE IF paramsFile.st = "absent"
       THEN /\ UNCHANGED <<calibration_params, temp_images>>
            /\ Respond(r, "process", HTTPError(400, "calibrate the camera first", ""),
                       "ModelNotReady", calibration_params)
       ELSE IF LoadOk(paramsFile)
       THEN /\ calibration_params' = UpdateFromCalibrator(load_results(paramsFile))
            /\ ProcOpen(r, img)
       ELSE \E m \in Msgs : LoadFailed(r, [kind |-> "CorruptModel", msg |-> m])
  /\ UNCHANGED <<paramsFile, calib_images, processed_images, results_files,
                 now, nextGen, saved>>

\* UsedModel with the roi taken from what the request read before its await
UsedModelStaleRoi(r) == [load_results(paramsFile) EXCEPT !.roi = req[r].seen.roi]

\* main.py 178: ImageProcessor(<parameter file>): the model the measurement
\* of request r works with is the one the file holds at that moment
UsedModel(r) == load_results(paramsFile)

\* main.py 175-213: the upload is written to original_path, ImageProcessor
\* loads the parameter file and measures, the outputs are written and the
\* temporary file is removed
ProcMeasure(r) ==
  /\ req[r].pc = "proc_read"
  /\ running = 0
  /\ UNCHANGED calibration_params
  /\ LET ts == req[r].ts
         \* f.write goes to the file opened before the await; a path that
         \* was removed meanwhile stays without a file
         stored == IF temp_images[ts].st = "absent" THEN temp_images
                   ELSE [temp_images EXCEPT ![ts] =
                           [st |-> "written", by |-> r, img |-> req[r].img]]
         failure == IF ~LoadOk(paramsFile) THEN "CorruptModel"
                    ELSE MeasureFailure(stored[ts])
     IN
     IF failure # ""
     THEN /\ \E m \in Msgs :
               Respond(r, "process",
                       [ServerError([kind |-> failure, msg |-> m]) EXCEPT
                          !.seen = req[r].seen],
                       failure, req[r].start)
          /\ temp_images' = stored
          /\ UNCHANGED <<processed_images, results_files>>
     ELSE /\ Respond(r, "process",
                     [Success("result") EXCEPT !.used = UsedModel(r),
                                               !.seen = req[r].seen],
                     "", req[r].start)
          /\ processed_images' = [processed_images EXCEPT ![ts] = r]
          /\ results_files' = [results_files EXCEPT ![ts] = r]
          /\ temp_images' = [stored EXCEPT ![ts] = NoFile]
  /\ UNCHANGED <<paramsFile, calib_images, now, nextGen, saved>>

\* ------------------------------------------------------ upload_calib_image
\* the first file of an upload request: main.py 47-56, the name of the
\* file, open(file_path, "wb"), up to `await file.read()`
UpStart(r) ==
  /\ Receivable(r)
  /\ \E idp \in IdPrefixes, fname \in FileNames, content \in Contents :
       LET name == [ts |-> now, idp |-> idp, fname |-> fname] IN
       /\ req' = [req EXCEPT ![r] = [@ EXCEPT !.kind = "upload", !.pc = "up_read",
                                              !.cur = name, !.curContent = content,
                                              !.start = calibration_params]]
       /\ calib_images' = [calib_images EXCEPT ![name] = "empty"]
  /\ running' = 0
  /\ UNCHANGED <<calibration_params, paramsFile, temp_images, processed_images,
                 results_files, now, nextGen, last, saved>>

\* main.py 56-72: the content is written, the result recorded, and the loop
\* goes on to the next file or the response is returned
UpResume(r) ==
  /\ req[r].pc = "up_read"
  /\ running = 0
  /\ UNCHANGED calibration_params
  /\ LET cur == req[r].cur
         \* f.write goes to the file opened before the await; a path that
         \* was removed meanwhile stays without a file
         written == IF calib_images[cur] = "absent" THEN calib_images
                    ELSE [calib_images EXCEPT ![cur] = req[r].curContent]
         uploaded == req[r].uploaded + 1
     IN
     \/ /\ uploaded < MaxFiles
        /\ \E idp \in IdPrefixes, fname \in FileNames, content \in Contents :
             LET name == [ts |-> now, idp |-> idp, fname |-> fname] IN
             /\ req' = [req EXCEPT ![r] = [@ EXCEPT !.uploaded = uploaded,
                                                    !.cur = name,
                                                    !.curContent = content]]
             /\ calib_images' = [written EXCEPT ![name] = "empty"]
        /\ UNCHANGED <<last, running>>
     \/ /\ Respond(r, "upload", [Success("uploaded_files") EXCEPT !.total = uploaded],
                   "", req[r].start)
        /\ calib_images' = written
  /\ UNCHANGED <<paramsFile, temp_images, processed_images, results_files, now,
                 nextGen, saved>>

\* DeleteCalibImages with the glob of main.py 281 reaching calib_results too
DeleteCalibImagesAndResults(r) ==
  /\ Receivable(r)
  /\ UNCHANGED calibration_params
  /\ calib_images' = [n \in Names |-> "absent"]
  /\ paramsFile' = AbsentFile
  /\ Respond(r, "delete",
             [Success("deleted_files") EXCEPT
                !.total = Cardinality({n \in Names : calib_images[n] # "absent"})],
             "", calibration_params)
  /\ UNCHANGED <<temp_images, processed_images, results_files, now, nextGen, saved>>

\* ----------------------------------------------------- delete_calib_images
\* main.py 279-296: every file of calib_images is removed
DeleteCalibImages(r) ==
  /\ Receivable(r)
  /\ UNCHANGED calibration_params
  /\ calib_images' = [n \in Names |-> "absent"]
  /\ Respond(r, "delete",
             [Success("deleted_files") EXCEPT
                !.total = Cardinality({n \in Names : calib_images[n] # "absent"})],
             "", calibration_params)
  /\ UNCHANGED <<paramsFile, temp_images, processed_images, results_files, now,
                 nextGen, saved>>

\* ---------------------------------------------------------- environment
\* a file or a request in flight carries the timestamp t
Stamped(t) ==
  \/ \E n \in Names : n.ts = t /\ calib_images[n] # "absent"
  \/ temp_images[t] # NoFile
  \/ processed_images[t] # NoOutput
  \/ results_files[t] # NoOutput
  \/ \E r \in Reqs : req[r].pc = "proc_read" /\ req[r].ts = t

\* datetime.now() (main.py 49, 164) moves on to the next second; a second
\* whose timestamp nothing carries is not told apart from the one before it
Tick ==
  /\ now < MaxTime
  /\ Stamped(now)
  /\ now' = now + 1
  /\ UNCHANGED <<calibration_params, paramsFile, folders, nextGen, running,
                 req, last, saved>>

\* the server process is stopped and started again (main.py 13-33, 300-302):
\* the files stay, the module globals are created anew, the requests that
\* were in flight are gone
Restart ==
  /\ calibration_params' = InitialParams
  /\ running' = 0
  /\ req' = [r \in Reqs |-> IF req[r].pc = "new" THEN NewReq ELSE DoneReq]
  /\ last' = NoLast
  /\ UNCHANGED <<paramsFile, folders, now, nextGen, saved>>

Next ==
  \/ \E r \in Reqs : CalGlob(r)
  \/ \E r \in Reqs : CalCalibrate(r)
  \/ \E r \in Reqs : CalSave(r)
  \/ \E r \in Reqs : CalUpdate(r)
  \/ \E r \in Reqs : ProcGate(r)
  \/ \E r \in Reqs : ProcMeasure(r)
  \/ \E r \in Reqs : UpStart(r)
  \/ \E r \in Reqs : UpResume(r)
  \/ \E r \in Reqs : DeleteCalibImages(r)
  \/ Tick
  \/ Restart

Spec == Init /\ [][Next]_vars

\* ================================================================ claims

\* a model all of whose fields come from one and the same calibration
Whole(m) ==
  /\ m.cameraMatrix # None /\ m.distCoeffs # None
  /\ m.newCameraMatrix # None /\ m.roi # None
  /\ FieldOf(m.cameraMatrix) = 1 /\ FieldOf(m.distCoeffs) = 2
  /\ FieldOf(m.newCameraMatrix) = 3 /\ FieldOf(m.roi) = 4
  /\ GenOf(m.distCoeffs) = GenOf(m.cameraMatrix)
  /\ GenOf(m.newCameraMatrix) = GenOf(m.cameraMatrix)
  /\ GenOf(m.roi) = GenOf(m.cameraMatrix)

\* in this step the handler of request r starts, as a request of the kind
StartsAs(r, kind) ==
  /\ req[r].pc = "new"
  /\ \/ req'[r].pc \notin {"new", "done"} /\ req'[r].kind = kind
     \/ req'[r].pc = "done" /\ last'.r = r /\ last'.handler = kind

\* C1: a process_image request received while is_calibrated is false and no
\* parameter file exists is rejected with an error response, and nothing is
\* written to temp_images, processed_images or results
C1_UncalibratedRejected ==
  [][\A r \in Reqs :
       (StartsAs(r, "process") /\ ~calibration_params.is_calibrated
          /\ paramsFile.st = "absent")
       => /\ req'[r].pc = "done"
          /\ last'.status = 400 /\ last'.key = "detail"
          /\ temp_images' = temp_images
          /\ processed_images' = processed_images
          /\ results_files' = results_files]_vars

C1_Witness ==
  /\ last.handler = "process" /\ last.err = "ModelNotReady"
  /\ ~calibration_params.is_calibrated /\ paramsFile.st = "absent"

\* C2: the model a successful measurement worked with is whole: its four
\* fields come from one calibration, whatever calibration ran while the
\* request was waiting at its await
C2_WholeModel ==
  (last.handler = "process" /\ last.status = 200) => Whole(last.used)

\* a measurement that ended with another model than the one persisted when
\* its request was received: a calibration ran while it was in flight
C2_Witness ==
  /\ last.handler = "process" /\ last.status = 200
  /\ Whole(last.seen) /\ Whole(last.used)
  /\ last.used.cameraMatrix # last.seen.cameraMatrix

\* C3: a start_calibration request that failed left calibration_params as
\* it found it
C3_FailedCalibrationKeepsModel ==
  (last.handler = "calib" /\ last.err # "") => last.end = last.start

C3_Witness ==
  /\ last.handler = "calib" /\ last.err = "IOError"
  /\ last.start.is_calibrated /\ last.end = last.start

\* C4: at most one start_calibration handler is between its first and its
\* last statement
InFlightCalibrations ==
  {r \in Reqs : req[r].pc \in {"cal_calibrate", "cal_save", "cal_update"}}

C4_OneCalibration == Cardinality(InFlightCalibrations) <= 1

\* a calibration is in flight after another calibration has responded
C4_Witness ==
  /\ last.handler = "calib" /\ last.status = 200
  /\ \E r \in Reqs : req[r].pc = "cal_update" /\ r # last.r

\* C5: is_calibrated is true exactly when newCameraMatrix and roi are
\* present, and cameraMatrix and distCoeffs are both present or both absent
C5_FieldsTogether ==
  /\ calibration_params.is_calibrated <=> calibration_params.newCameraMatrix # None
  /\ calibration_params.is_calibrated <=> calibration_params.roi # None
  /\ calibration_params.cameraMatrix # None <=> calibration_params.distCoeffs # None

\* the model was installed by the lazy reload of a process_image request
C5_Witness ==
  /\ calibration_params.is_calibrated
  /\ \E r \in Reqs : req[r].pc = "proc_read" /\ ~req[r].start.is_calibrated

\* C6 as stated: a process_image request that failed left
\* calibration_params as it was when the request started
C6_FailedMeasurementKeepsModel ==
  (last.handler = "process" /\ last.err # "") => last.end = last.start

\* C6 amended: a process_image request rejected at the calibration gate
\* leaves calibration_params unchanged, a request that passes the gate
\* changes it at most by installing the persisted model there, and no step
\* after the gate (measurement, success or failure) changes it
C6_OnlyTheGateReloads ==
  [][\A r \in Reqs :
       /\ (req[r].pc = "proc_read" /\ req'[r].pc = "done" /\ last'.r = r)
            => calibration_params' = calibration_params
       /\ (StartsAs(r, "process") /\ req'[r].pc = "done")
            => calibration_params' = calibration_params
       /\ (StartsAs(r, "process") /\ req'[r].pc = "proc_read")
            => \/ calibration_params' = calibration_params
               \/ /\ ~calibration_params.is_calibrated
                  /\ calibration_params' =
                       [cameraMatrix |-> paramsFile.kv.cameraMatrix,
                        distCoeffs |-> paramsFile.kv.distCoeffs,
                        newCameraMatrix |-> paramsFile.kv.newCameraMatrix,
                        roi |-> paramsFile.kv.roi,
                        is_calibrated |-> TRUE]]_vars

\* a request that reloaded the model at the gate and then failed to measure
C6_Witness ==
  /\ last.handler = "process" /\ last.err = "ScaleIndeterminate"
  /\ ~last.start.is_calibrated /\ last.end.is_calibrated

\* C7: two failures of different kinds of the taxonomy are never reported
\* with the same status, body key and text
Taxonomy ==
  {"InsufficientData", "IOError", "CorruptModel", "ModelNotReady",
   "SizeMismatch", "ScaleIndeterminate"}

Outcome(response) ==
  <<response.status, response.key, response.prefix, response.msg>>

C7_KindsDistinguished ==
  [][(last.err \in Taxonomy /\ last'.err \in Taxonomy /\ last'.err # last.err)
       => Outcome(last') # Outcome(last)]_vars

\* C8: a calibration whose batch holds no image that shows the chessboard
\* ends in an error response and leaves calibration_params as it found it
C8_NoUsableImageNoModel ==
  (last.handler = "calib" /\ last.usable = 0)
    => /\ last.status \in {400, 500}
       /\ last.err # ""
       /\ last.end = last.start

\* a batch of images none of which shows the chessboard
C8_Witness ==
  /\ last.handler = "calib" /\ last.nimages > 0 /\ last.usable = 0
  /\ last.status = 500 /\ last.err = "InsufficientData"

C11_DeleteKeepsModel ==
  [][\A r \in Reqs :
       /\ StartsAs(r, "delete")
            => /\ calibration_params' = calibration_params
               /\ paramsFile' = paramsFile
       /\ (StartsAs(r, "process")
             /\ (calibration_params.is_calibrated \/ LoadOk(paramsFile))
             /\ \A n \in Names : calib_images[n] = "absent")
            => /\ req'[r].pc = "proc_read"
               /\ calibration_params'.is_calibrated
               /\ paramsFile' = paramsFile]_vars

\* the images were deleted after a calibration had succeeded: the model in
\* memory and the parameter file still are the ones that calibration left
C11_Witness ==
  /\ last.handler = "delete" /\ last.total >= 1
  /\ \A n \in Names : calib_images[n] = "absent"
  /\ calibration_params.is_calibrated
  /\ saved # NoCalibrator /\ GenOf(saved.cameraMatrix) >= 2
  /\ calibration_params.cameraMatrix = saved.cameraMatrix
  /\ paramsFile = save_results(saved)

\* C12: two process_image requests that are in flight together have
\* different timestamps, hence different original, processed and result
\* paths (main.py 164-171 derives the three names from the timestamp alone)
C12_DistinctPaths ==
  \A r1, r2 \in Reqs :
    (r1 # r2 /\ req[r1].pc = "proc_read" /\ req[r2].pc = "proc_read")
      => req[r1].ts # req[r2].ts

\* calibration_params holds the four fields of the model the parameter file
\* holds
FileHoldsCurrentModel ==
  /\ paramsFile.st = "ok"
  /\ paramsFile.kv.cameraMatrix = calibration_params.cameraMatrix
  /\ paramsFile.kv.distCoeffs = calibration_params.distCoeffs
  /\ paramsFile.kv.newCameraMatrix = calibration_params.newCameraMatrix
  /\ paramsFile.kv.roi = calibration_params.roi

\* C13: whenever a handler can look (the event loop is free) and
\* is_calibrated is true, the parameter file exists and holds the model of
\* calibration_params
C13_FileHoldsCurrentModel ==
  (running = 0 /\ calibration_params.is_calibrated) => FileHoldsCurrentModel

\* C14: the batch of a start_calibration request holds no file that an
\* upload_calib_image request has opened and not yet written
C14_BatchComplete ==
  \A r \in Reqs :
    req[r].pc \in {"cal_calibrate", "cal_save", "cal_update"}
      => \A n \in req[r].batch : calib_images[n] # "empty"

\* C15: a process_image request received while is_calibrated is false and
\* a parameter file exists either loads the file, installs its four fields
\* with is_calibrated true and goes on to the measurement without a
\* calibration being run, or, when loading fails, is rejected with HTTP 400
\* and leaves calibration_params as it was, is_calibrated false
C15_LazyReload ==
  [][\A r \in Reqs :
       (StartsAs(r, "process") /\ ~calibration_params.is_calibrated
          /\ paramsFile.st # "absent")
       => \/ /\ LoadOk(paramsFile)
             /\ req'[r].pc = "proc_read"
             /\ calibration_params'.is_calibrated
             /\ calibration_params'.cameraMatrix = paramsFile.kv.cameraMatrix
             /\ calibration_params'.distCoeffs = paramsFile.kv.distCoeffs
             /\ calibration_params'.newCameraMatrix = paramsFile.kv.newCameraMatrix
             /\ calibration_params'.roi = paramsFile.kv.roi
             /\ calibration_params'.cameraMatrix # None
             /\ nextGen' = nextGen /\ paramsFile' = paramsFile
          \/ /\ ~LoadOk(paramsFile)
             /\ req'[r].pc = "done"
             /\ last'.status = 400 /\ last'.key = "detail"
             /\ last'.err = "CorruptModel"
             /\ calibration_params' = calibration_params
             /\ ~calibration_params'.is_calibrated
             /\ temp_images' = temp_images]_vars

\* a request reloaded the persisted model and was measured with it, and no
\* calibration has been run since the process was first started
C15_Witness ==
  /\ last.handler = "process" /\ last.status = 200
  /\ ~last.start.is_calibrated /\ last.end.is_calibrated
  /\ last.used.cameraMatrix = last.end.cameraMatrix
  /\ nextGen = 2

\* C16: when a process_image request that has opened its original image in
\* temp_images responds, with success or with an error, the path of that
\* image holds no file any more
C16_TempRemoved ==
  [][\A r \in Reqs :
       (req[r].pc = "proc_read" /\ req'[r].pc = "done" /\ last'.r = r)
         => temp_images'[req[r].ts] = NoFile]_vars

\* in this step request r, an upload_calib_image request, opens the
\* destination of one of its files (main.py 55)
OpensUpload(r) ==
  /\ req'[r].pc = "up_read"
  /\ req[r].pc = "new" \/ req'[r].uploaded # req[r].uploaded

\* C17: the path under which an upload_calib_image request stores a file
\* holds no calibration image yet, of the same or of any other request
C17_FreshPath ==
  [][\A r \in Reqs :
       OpensUpload(r) => calib_images[req'[r].cur] = "absent"]_vars

\* C18: once is_calibrated is true, no step of any request handler sets it
\* back to false or sets one of the four fields back to None (the process
\* being started again is not a request)
C18_CalibratedForGood ==
  [][(calibration_params.is_calibrated /\ ~Restart)
       => /\ calibration_params'.is_calibrated
          /\ calibration_params'.cameraMatrix # None
          /\ calibration_params'.distCoeffs # None
          /\ calibration_params'.newCameraMatrix # None
          /\ calibration_params'.roi # None]_vars

\* a measurement failed while the model was calibrated, and it still is
C18_Witness ==
  /\ last.handler = "process" /\ last.err = "SizeMismatch"
  /\ last.start.is_calibrated /\ calibration_params.is_calibrated
  /\ calibration_params = last.start

====
